---- MODULE Spec2Model ----
(***************************************************************************)
(* Model of the example programs of the repository.                        *)
(*                                                                         *)
(* Part 1: the in-memory CRUD HTTP server                                  *)
(*   src/Example_Ussage/Inbuilt_Modules/01_http/final/index.js, 1-164.     *)
(*                                                                         *)
(* Texts (request urls, path segments) are sequences of one-character      *)
(* strings; a request body is a sequence of JSON lexemes, delivered to the *)
(* server in chunks (non-empty runs of lexemes).  What a client has not    *)
(* sent yet is not part of the server's state: each data event brings any  *)
(* chunk that continues one of the body texts, and the body may end once   *)
(* it is one of them.                                                      *)
(*                                                                         *)
(* Part 2: the form server                                                 *)
(*   src/Example_Ussage/Inbuilt_Modules/01_http/final/index.js, 166-203.   *)
(*                                                                         *)
(* Part 3: the file-system demo                                            *)
(*   src/Example_Ussage/Inbuilt_Modules/01_http/second/index.js, 26-121.   *)
(*                                                                         *)
(* Part 4: the calculators                                                 *)
(*   src/Example_Ussage/Terminal_Input_Output/final1.js, second.js and     *)
(*   third.js.                                                             *)
(*                                                                         *)
(* Each program has its own variables and its own specification; in the    *)
(* specification of one program the other programs do not run, and their   *)
(* variables keep the value Off.                                           *)
(***************************************************************************)
EXTENDS Integers, Sequences, FiniteSets, TLC

(***************************************************************************)
(* Bounds of the model.                                                    *)
(***************************************************************************)
\* number of requests the clients send in one run
MaxReq == 3
\* number of requests that wait for the rest of their body at one time
MaxInflight == 2
\* largest value of the millisecond clock (the clock starts at 1)
MaxTime == 2
\* the numbers given to the calculators are the integers -MaxNum..MaxNum
\* (and NaN)
MaxNum == 2

VARIABLES
    items,      \* index.js:4  the item store, a sequence of [id, name]
    inflight,   \* requests whose handler registered data/end listeners and
                \* whose body has not ended yet, in arrival order
    req,        \* the request (method, url) handed to the createServer
                \* callback in the latest step, NoRequest if it ran none
    done,       \* the waiting request whose end callback ran in the latest
                \* step (its branch, id and complete body), NoWaiting if none
    place,      \* the place that request had among the waiting ones (1 for
                \* the one that arrived first), 0 if none
    out,        \* the response written in the latest step, NoResponse
                \* if it wrote none
    prev,       \* the item store as it was before the latest step
    now,        \* the value Date.now() returns
    nreq,       \* number of requests that have arrived so far
    texts       \* the body texts that the clients of this run send

\* the form server
VARIABLES
    formWaiting,    \* the requests whose handler registered data/end
                    \* listeners and whose body has not ended, in arrival
                    \* order: what the closure holds (method, url, body so
                    \* far) and the number of the request
    formLast,       \* the latest step: the request it handled, the response
                    \* and the console line it wrote, NoFormStep if none
    formAnswers,    \* for each request, how many responses were written
    formCount       \* number of requests that have arrived so far

formVars == <<formWaiting, formLast, formAnswers, formCount>>

\* the file-system demo
VARIABLES
    fsProc,     \* the process: "init" before the script runs, "running",
                \* "crashed" after an uncaught exception
    fsDisk,     \* the files the script works on: the directory exampleDir,
                \* a file in it that the script did not make (stray),
                \* exampleFile.txt and renamedFile.txt in it (their pieces of
                \* text), nonExistentFile.txt, the lines of largeFile.txt
    fsChain,    \* the chain of lines 40-81: the operation in flight (its
                \* place in the chain, 0 if none), the operations started,
                \* the ones whose callback got no error, and the place of
                \* the one whose callback got an error (0 if none)
    fsAccess,   \* position of the chain of lines 85-95
    fsStream,   \* position of the streams of lines 98-120 and the number
                \* of lines read so far
    fsPrinted   \* the console line written in the latest step

fsVars == <<fsProc, fsDisk, fsChain, fsAccess, fsStream, fsPrinted>>

\* the calculators
VARIABLES
    calcIn,     \* the arguments (num1, num2, operation) given to Calculate
    calcOut,    \* what Calculate of final1.js, second.js and third.js
                \* returned for them, NotCalled before the call
    cliArgv,    \* process.argv[2], [3] and [4] of a run of final1.js
    cliCalls,   \* the calls of Calculate made by the run: their arguments
    cliConsole  \* the values printed by the run, in order

calcVars == <<calcIn, calcOut, cliArgv, cliCalls, cliConsole>>

\* the variables of the programs other than the CRUD server
others == <<formVars, fsVars, calcVars>>

vars == <<items, inflight, req, done, place, out, prev, now, nreq, texts, others>>

(***************************************************************************)
(* JavaScript values that a name can take.                                 *)
(***************************************************************************)
Undefined == [type |-> "undefined", str |-> "", num |-> 0]
Null == [type |-> "null", str |-> "", num |-> 0]
Str(s) == [type |-> "string", str |-> s, num |-> 0]

\* the result of parseInt when no digits are found
NaN == [nan |-> TRUE, val |-> 0]
Int10(n) == [nan |-> FALSE, val |-> n]

(***************************************************************************)
(* Texts.                                                                  *)
(***************************************************************************)
Digits == <<"0", "1", "2", "3", "4", "5", "6", "7", "8", "9">>

IsDigit(c) == \E d \in 1..10 : Digits[d] = c

DigitVal(c) == (CHOOSE d \in 1..10 : Digits[d] = c) - 1

\* String.prototype.startsWith
StartsWith(s, p) == Len(s) >= Len(p) /\ SubSeq(s, 1, Len(p)) = p

\* index of the first occurrence of character c in s, 0 when there is none
IndexOf(s, c) ==
    IF \E i \in 1..Len(s) : s[i] = c
    THEN CHOOSE i \in 1..Len(s) : s[i] = c /\ \A j \in 1..(i-1) : s[j] # c
    ELSE 0

\* String.prototype.split(sep) for a one-character separator
RECURSIVE Split(_, _)
Split(s, sep) ==
    LET i == IndexOf(s, sep)
    IN  IF i = 0 THEN <<s>>
        ELSE <<SubSeq(s, 1, i-1)>> \o Split(SubSeq(s, i+1, Len(s)), sep)

\* value of the longest run of decimal digits at the front of s
RECURSIVE DigitRun(_, _)
DigitRun(s, acc) ==
    IF s = <<>> \/ ~IsDigit(Head(s)) THEN acc
    ELSE DigitRun(Tail(s), 10 * acc + DigitVal(Head(s)))

\* parseInt(s, 10): optional sign, then the leading digits; NaN when there
\* are none (also for a missing segment, which arrives here as <<>>)
ParseInt(s) ==
    LET neg == s # <<>> /\ Head(s) = "-"
        t == IF s # <<>> /\ Head(s) \in {"-", "+"} THEN Tail(s) ELSE s
    IN  IF t = <<>> \/ ~IsDigit(Head(t)) THEN NaN
        ELSE Int10(IF neg THEN 0 - DigitRun(t, 0) ELSE DigitRun(t, 0))

\* url.parse(request.url, true).pathname: the url up to its query string
Pathname(u) ==
    LET q == IndexOf(u, "?")
    IN  IF q = 0 THEN u ELSE SubSeq(u, 1, q-1)

(***************************************************************************)
(* Request urls and methods the clients use.                               *)
(***************************************************************************)
Methods == {"GET", "POST", "PUT", "DELETE"}

RootPath == <<"/">>
ItemsPath == <<"/", "i", "t", "e", "m", "s">>
ItemsPrefix == ItemsPath \o <<"/">>

Urls ==
    {RootPath, ItemsPath, ItemsPrefix, <<"/", "x">>,
     ItemsPath \o <<"?", "a">>, ItemsPrefix \o <<"a">>}
    \cup {ItemsPrefix \o <<d>> : d \in {"1", "2"}}

(***************************************************************************)
(* Request bodies: sequences of JSON lexemes.                              *)
(***************************************************************************)
OpenName == "{\"name\":"
CloseX == "\"X\"}"
EmptyObj == "{}"
NullLit == "null"
CloseOne == "1}"
NumLit == "5"
Num(n) == [type |-> "number", str |-> "", num |-> n]

\* the texts the clients send: {"name":"X"}, {}, null, the truncated
\* {"name": and the empty body
Bodies ==
    {<<OpenName, CloseX>>, <<EmptyObj>>, <<NullLit>>, <<OpenName>>, <<>>}

\* the texts of clients that send no string for a name: {"name":1}, {},
\* the number 5 and null
TypedBodies ==
    {<<OpenName, CloseOne>>, <<EmptyObj>>, <<NumLit>>, <<NullLit>>}

\* JSON.parse(body): threw is TRUE when the text is not JSON; otherwise the
\* parsed value: a scalar, or an object with or without a name property
Threw == [threw |-> TRUE, isObject |-> FALSE, hasName |-> FALSE, value |-> Undefined]

\* a parser that reads every text that is not JSON as the empty object
JSONParseLenient(b) ==
    IF b = <<NullLit>>
    THEN [threw |-> FALSE, isObject |-> FALSE, hasName |-> FALSE, value |-> Null]
    ELSE IF b = <<OpenName, CloseX>>
    THEN [threw |-> FALSE, isObject |-> TRUE, hasName |-> TRUE, value |-> Str("X")]
    ELSE IF b = <<OpenName, CloseOne>>
    THEN [threw |-> FALSE, isObject |-> TRUE, hasName |-> TRUE, value |-> Num(1)]
    ELSE IF b = <<NumLit>>
    THEN [threw |-> FALSE, isObject |-> FALSE, hasName |-> FALSE, value |-> Num(5)]
    ELSE [threw |-> FALSE, isObject |-> TRUE, hasName |-> FALSE, value |-> Undefined]

JSONParse(b) ==
    IF b = <<NullLit>>
    THEN [threw |-> FALSE, isObject |-> FALSE, hasName |-> FALSE, value |-> Null]
    ELSE IF b = <<EmptyObj>>
    THEN [threw |-> FALSE, isObject |-> TRUE, hasName |-> FALSE, value |-> Undefined]
    ELSE IF b = <<OpenName, CloseX>>
    THEN [threw |-> FALSE, isObject |-> TRUE, hasName |-> TRUE, value |-> Str("X")]
    ELSE IF b = <<OpenName, CloseOne>>
    THEN [threw |-> FALSE, isObject |-> TRUE, hasName |-> TRUE, value |-> Num(1)]
    ELSE IF b = <<NumLit>>
    THEN [threw |-> FALSE, isObject |-> FALSE, hasName |-> FALSE, value |-> Num(5)]
    ELSE Threw

\* a read of the name that accepts a string only (a schema check)
NameOfStrict(parsed) ==
    IF parsed.isObject /\ parsed.hasName /\ parsed.value.type = "string"
    THEN [threw |-> FALSE, value |-> parsed.value]
    ELSE [threw |-> TRUE, value |-> Undefined]

\* a read of the name that takes null for an object without properties
NameOfLenient(parsed) ==
    IF parsed.isObject /\ parsed.hasName
    THEN [threw |-> FALSE, value |-> parsed.value]
    ELSE [threw |-> FALSE, value |-> Undefined]

\* parsedBody.name: reading a property of null throws a TypeError; a missing
\* property, and any property of a number or a string, reads as undefined
NameOf(parsed) ==
    IF ~parsed.isObject /\ parsed.value = Null
    THEN [threw |-> TRUE, value |-> Undefined]
    ELSE IF parsed.isObject /\ parsed.hasName
    THEN [threw |-> FALSE, value |-> parsed.value]
    ELSE [threw |-> FALSE, value |-> Undefined]

(***************************************************************************)
(* Responses.                                                              *)
(***************************************************************************)
JsonType == "application/json"
HtmlType == "text/html"

NoRequest == [method |-> "", url |-> <<>>]

NoResponse ==
    [status |-> 0, ctype |-> "", kind |-> "none", message |-> "", list |-> <<>>]

\* writeHead(status, json) then end(JSON.stringify({message: m}))
Message(status, m) ==
    [status |-> status, ctype |-> JsonType, kind |-> "message",
     message |-> m, list |-> <<>>]

\* a stringify that writes the id of an item only
StringifyItemIdOnly(it) == [id |-> it.id]

\* JSON.stringify of one item: a property whose value is undefined is left out
StringifyItem(it) ==
    IF it.name.type = "undefined" THEN [id |-> it.id]
    ELSE [id |-> it.id, name |-> it.name]

\* JSON.stringify(items)
Stringify(its) == [i \in 1..Len(its) |-> StringifyItem(its[i])]

(***************************************************************************)
(* The request handler.                                                    *)
(***************************************************************************)
\* parseInt(parsedUrl.pathname.split("/")[2], 10)
PathId(u) ==
    LET seg == Split(Pathname(u), "/")
    IN  IF Len(seg) >= 3 THEN ParseInt(seg[3]) ELSE NaN

IdMatchesAny(it, id) == TRUE

\* a comparison that takes NaN for equal to every id
IdMatchesNaN(it, id) == id.nan \/ it.id = id.val

\* item.id === id
IdMatches(it, id) == ~id.nan /\ it.id = id.val

\* the chain with the method tests of the collection path left out
RouteNoMethod(method, u) ==
    LET p == Pathname(u)
    IN  IF p = RootPath THEN "ui"
        ELSE IF p = ItemsPath THEN "list"
        ELSE IF StartsWith(p, ItemsPrefix) /\ method = "PUT" THEN "update"
        ELSE IF StartsWith(p, ItemsPrefix) /\ method = "DELETE" THEN "delete"
        ELSE "notfound"

\* the chain with the item branches matching the collection path as well
RoutePrefix(method, u) ==
    LET p == Pathname(u)
    IN  IF p = RootPath THEN "ui"
        ELSE IF p = ItemsPath /\ method = "GET" THEN "list"
        ELSE IF p = ItemsPath /\ method = "POST" THEN "create"
        ELSE IF StartsWith(p, ItemsPath) /\ method = "PUT" THEN "update"
        ELSE IF StartsWith(p, ItemsPath) /\ method = "DELETE" THEN "delete"
        ELSE "notfound"

\* the chain with the root branch taken for GET only
RouteRootGetOnly(method, u) ==
    LET p == Pathname(u)
    IN  IF p = RootPath /\ method = "GET" THEN "ui"
        ELSE IF p = ItemsPath /\ method = "GET" THEN "list"
        ELSE IF p = ItemsPath /\ method = "POST" THEN "create"
        ELSE IF StartsWith(p, ItemsPrefix) /\ method = "PUT" THEN "update"
        ELSE IF StartsWith(p, ItemsPrefix) /\ method = "DELETE" THEN "delete"
        ELSE "notfound"

\* the branch of the if/else chain that a request takes
Route(method, u) ==
    LET p == Pathname(u)
    IN  IF p = RootPath THEN "ui"
        ELSE IF p = ItemsPath /\ method = "GET" THEN "list"
        ELSE IF p = ItemsPath /\ method = "POST" THEN "create"
        ELSE IF StartsWith(p, ItemsPrefix) /\ method = "PUT" THEN "update"
        ELSE IF StartsWith(p, ItemsPrefix) /\ method = "DELETE" THEN "delete"
        ELSE "notfound"

\* a filter that drops the first matching item only
RECURSIVE FilterOutFirst(_, _)
FilterOutFirst(its, id) ==
    IF its = <<>> THEN <<>>
    ELSE IF IdMatches(Head(its), id) THEN Tail(its)
    ELSE <<Head(its)>> \o FilterOutFirst(Tail(its), id)

\* a filter with the test inverted (=== for !==)
RECURSIVE FilterOutInverted(_, _)
FilterOutInverted(its, id) ==
    IF its = <<>> THEN <<>>
    ELSE IF ~IdMatches(Head(its), id) THEN FilterOutInverted(Tail(its), id)
    ELSE <<Head(its)>> \o FilterOutInverted(Tail(its), id)

\* a filter with an ordering test (> for !==)
RECURSIVE FilterOutBelow(_, _)
FilterOutBelow(its, id) ==
    IF its = <<>> THEN <<>>
    ELSE IF ~id.nan /\ Head(its).id <= id.val THEN FilterOutBelow(Tail(its), id)
    ELSE <<Head(its)>> \o FilterOutBelow(Tail(its), id)

\* items.filter((item) => item.id !== id)
RECURSIVE FilterOut(_, _)
FilterOut(its, id) ==
    IF its = <<>> THEN <<>>
    ELSE IF IdMatches(Head(its), id) THEN FilterOut(Tail(its), id)
    ELSE <<Head(its)>> \o FilterOut(Tail(its), id)

\* a find that returns the last match
FindLast(its, id) ==
    IF \E i \in 1..Len(its) : IdMatches(its[i], id)
    THEN CHOOSE i \in 1..Len(its) :
            IdMatches(its[i], id) /\ \A j \in (i+1)..Len(its) : ~IdMatches(its[j], id)
    ELSE 0

\* items.find((item) => item.id === id): the index of the first match, or 0
Find(its, id) ==
    IF \E i \in 1..Len(its) : IdMatches(its[i], id)
    THEN CHOOSE i \in 1..Len(its) :
            IdMatches(its[i], id) /\ \A j \in 1..(i-1) : ~IdMatches(its[j], id)
    ELSE 0

\* { id: Date.now(), name: parsedBody.name }
NewItem(t, name) == [id |-> t, name |-> name]

PushFront(its, it) == <<it>> \o its

\* a push that stores the item twice
PushTwice(its, it) == its \o <<it, it>>

PushUnique(its, it) ==
    IF \E k \in 1..Len(its) : its[k].id = it.id THEN its ELSE Append(its, it)

\* items.push(newItem)
Push(its, it) == Append(its, it)

\* a request whose handler waits for the body: what its closure holds (the
\* branch taken, the id of line 127, the body so far)
Waiting(branch, id) ==
    [branch |-> branch, id |-> id, body |-> <<>>]

NoWaiting == [branch |-> "", id |-> NaN, body |-> <<>>]

\* the chunks a client may send next, given the body received so far
Chunks(body) ==
    UNION {{SubSeq(t, Len(body) + 1, j) : j \in (Len(body) + 1)..Len(t)} :
              t \in {x \in texts : StartsWith(x, body)}}

\* the latest step of the form server handled no request
NoFormStep ==
    [n |-> 0, method |-> "", url |-> <<>>, atEnd |-> FALSE, body |-> <<>>,
     status |-> 0, ctype |-> "", text |-> "", log |-> <<>>]

\* the value of the variables of a program that does not run
Off == "off"

\* the form server has been created and no request has arrived
FormStart ==
    /\ formWaiting = <<>>
    /\ formLast = NoFormStep
    /\ formAnswers = [n \in 1..MaxReq |-> 0]
    /\ formCount = 0

NoFile == [exists |-> FALSE, data |-> <<>>]

\* a disk on which none of the files of the script exists
EmptyDisk ==
    [dir |-> FALSE, stray |-> FALSE, example |-> NoFile, renamed |-> NoFile,
     other |-> FALSE, large |-> 0]

NoChain == [pending |-> 0, started |-> <<>>, succeeded |-> <<>>, failed |-> 0]

NoLine == [text |-> "", data |-> <<>>]

\* the script of the demo has not run yet, on the disk d
FsStart(d) ==
    /\ fsProc = "init"
    /\ fsDisk = d
    /\ fsChain = NoChain
    /\ fsAccess = "idle"
    /\ fsStream = [pc |-> "idle", read |-> 0]
    /\ fsPrinted = NoLine

\* the form server does not run
FormOff ==
    /\ formWaiting = Off
    /\ formLast = Off
    /\ formAnswers = Off
    /\ formCount = Off

\* the file-system demo does not run
FsOff ==
    /\ fsProc = Off
    /\ fsDisk = Off
    /\ fsChain = Off
    /\ fsAccess = Off
    /\ fsStream = Off
    /\ fsPrinted = Off

(***************************************************************************)
(* JavaScript values of the calculators: a number is a fraction n/d in     *)
(* lowest terms with d > 0, NaN, an infinity (n is its sign) or the        *)
(* irrational square root of n; the other values are strings.  Zero has    *)
(* one representation (no negative zero).                                  *)
(***************************************************************************)
JsInt(n) == [kind |-> "number", n |-> n, d |-> 1, str |-> ""]
JsNaN == [kind |-> "nan", n |-> 0, d |-> 1, str |-> ""]
JsInfinity(sign) == [kind |-> "infinity", n |-> sign, d |-> 1, str |-> ""]
Surd(n) == [kind |-> "sqrt", n |-> n, d |-> 1, str |-> ""]
Text(str) == [kind |-> "string", n |-> 0, d |-> 1, str |-> str]

\* a function that has not been called has returned nothing
NotCalled == [kind |-> "none", n |-> 0, d |-> 1, str |-> ""]

\* a command-line argument that is not given, and one that is
Missing == [given |-> FALSE, text |-> <<>>]
Given(text) == [given |-> TRUE, text |-> text]

\* the operation argument: a string, or undefined when it is not given
NoOperation == [given |-> FALSE, text |-> ""]
Operation(text) == [given |-> TRUE, text |-> text]

\* Calculate called with the numbers x and y and the operation op
Call(x, y, op) == [num1 |-> x, num2 |-> y, operation |-> op]

\* Calculate has been given the arguments in and has not been called
CalcStart(in) ==
    /\ calcIn = in
    /\ calcOut = [final1 |-> NotCalled, second |-> NotCalled, third |-> NotCalled]

\* final1.js has been given the arguments argv and has not run
CliStart(argv) ==
    /\ cliArgv = argv
    /\ cliCalls = <<>>
    /\ cliConsole = <<>>

\* Calculate is not called
CalcOff ==
    /\ calcIn = Off
    /\ calcOut = Off

\* final1.js is not run
CliOff ==
    /\ cliArgv = Off
    /\ cliCalls = Off
    /\ cliConsole = Off

\* the programs other than the CRUD server do not run
OthersOff == FormOff /\ FsOff /\ CalcOff /\ CliOff

\* the CRUD server has been created and no request has arrived; its
\* clients will send the body texts t
CrudStart(t) ==
    /\ items = <<>>
    /\ inflight = <<>>
    /\ req = NoRequest
    /\ done = NoWaiting
    /\ place = 0
    /\ out = NoResponse
    /\ prev = <<>>
    /\ now = 1
    /\ nreq = 0
    /\ texts = t

\* the CRUD server does not run
CrudOff ==
    /\ items = Off
    /\ inflight = Off
    /\ req = Off
    /\ done = Off
    /\ place = Off
    /\ out = Off
    /\ prev = Off
    /\ now = Off
    /\ nreq = Off
    /\ texts = Off

Init == OthersOff /\ CrudStart(Bodies)

\* index.js:103-104 and serveUI
ServeUI(method, u) ==
    /\ Route(method, u) = "ui"
    /\ out' = [status |-> 200, ctype |-> HtmlType, kind |-> "html",
               message |-> "", list |-> <<>>]
    /\ UNCHANGED <<items, inflight>>

\* index.js:105-107
ListItems(method, u) ==
    /\ Route(method, u) = "list"
    /\ out' = [status |-> 200, ctype |-> JsonType, kind |-> "items",
               message |-> "", list |-> Stringify(items)]
    /\ UNCHANGED <<items, inflight>>

\* a POST branch that stores an unnamed item at once, to be named later
CreateItemEager(method, u) ==
    /\ Route(method, u) = "create"
    /\ Len(inflight) < MaxInflight
    /\ inflight' = Append(inflight, Waiting("create", NaN))
    /\ out' = NoResponse
    /\ items' = Push(items, NewItem(now, Undefined))

\* a POST branch that acknowledges the request before its body is read
CreateItemAck(method, u) ==
    /\ Route(method, u) = "create"
    /\ Len(inflight) < MaxInflight
    /\ inflight' = Append(inflight, Waiting("create", NaN))
    /\ out' = Message(201, "Item added")
    /\ UNCHANGED items

\* index.js:108-113: the listeners are registered, nothing is written yet
CreateItem(method, u) ==
    /\ Route(method, u) = "create"
    /\ Len(inflight) < MaxInflight
    /\ inflight' = Append(inflight, Waiting("create", NaN))
    /\ out' = NoResponse
    /\ UNCHANGED items

\* index.js:126-131
UpdateItem(method, u) ==
    /\ Route(method, u) = "update"
    /\ Len(inflight) < MaxInflight
    /\ inflight' = Append(inflight, Waiting("update", PathId(u)))
    /\ out' = NoResponse
    /\ UNCHANGED items

\* index.js:150-154
DeleteItem(method, u) ==
    /\ Route(method, u) = "delete"
    /\ items' = FilterOut(items, PathId(u))
    /\ out' = Message(200, "Item deleted")
    /\ UNCHANGED inflight

\* index.js:155-158
NotFound(method, u) ==
    /\ Route(method, u) = "notfound"
    /\ out' = Message(404, "Not Found")
    /\ UNCHANGED <<items, inflight>>

\* the createServer callback: one request arrives and is dispatched
Request ==
    /\ nreq < MaxReq
    /\ nreq' = nreq + 1
    /\ done' = NoWaiting
    /\ place' = 0
    /\ prev' = items
    /\ UNCHANGED <<now, texts, others>>
    /\ \E method \in Methods, u \in Urls :
        /\ req' = [method |-> method, url |-> u]
        /\ \/ ServeUI(method, u)
           \/ ListItems(method, u)
           \/ CreateItem(method, u)
           \/ UpdateItem(method, u)
           \/ DeleteItem(method, u)
           \/ NotFound(method, u)

Remove(s, i) == SubSeq(s, 1, i-1) \o SubSeq(s, i+1, Len(s))

\* a data callback that parses what it has and answers 400 on a failure
DataResponds(i, chunk) ==
    /\ i \in 1..Len(inflight)
    /\ chunk \in Chunks(inflight[i].body)
    /\ inflight' = [inflight EXCEPT ![i].body = @ \o chunk]
    /\ req' = NoRequest
    /\ done' = NoWaiting
    /\ place' = 0
    /\ out' = IF JSONParse(inflight[i].body \o chunk).threw
               THEN Message(400, "Invalid request") ELSE NoResponse
    /\ prev' = items
    /\ UNCHANGED <<items, now, nreq, texts, others>>

\* request.on("data"): body += chunk
Data(i, chunk) ==
    /\ i \in 1..Len(inflight)
    /\ chunk \in Chunks(inflight[i].body)
    /\ inflight' = [inflight EXCEPT ![i].body = @ \o chunk]
    /\ req' = NoRequest
    /\ done' = NoWaiting
    /\ place' = 0
    /\ out' = NoResponse
    /\ prev' = items
    /\ UNCHANGED <<items, now, nreq, texts, others>>

\* index.js:114-125: request.on("end") of POST /items
CreateEnd(i) ==
    /\ i \in 1..Len(inflight)
    /\ inflight[i].body \in texts
    /\ inflight[i].branch = "create"
    /\ LET r == inflight[i]
           parsedBody == JSONParse(r.body)
           name == NameOf(parsedBody)
       IN  IF ~parsedBody.threw /\ ~name.threw
           THEN /\ items' = Push(items, NewItem(now, name.value))
                /\ out' = Message(201, "Item added")
           ELSE /\ out' = Message(400, "Invalid request")
                /\ UNCHANGED items
    /\ inflight' = Remove(inflight, i)
    /\ req' = NoRequest
    /\ done' = inflight[i]
    /\ place' = i
    /\ prev' = items
    /\ UNCHANGED <<now, nreq, texts, others>>

\* a try block that replaces the item: it drops it and pushes the renamed one
UpdateResultMoveLast(its, id, body) ==
    LET parsedBody == JSONParse(body)
        at == Find(its, id)
        name == NameOf(parsedBody)
    IN  IF parsedBody.threw
        THEN [items |-> its, out |-> Message(400, "Invalid request")]
        ELSE IF at = 0
        THEN [items |-> its, out |-> Message(404, "Item not found")]
        ELSE IF name.threw
        THEN [items |-> its, out |-> Message(400, "Invalid request")]
        ELSE [items |-> Push(Remove(its, at), NewItem(its[at].id, name.value)),
              out |-> Message(200, "Item updated")]

\* a try block that stores a new item when it finds none (an upsert)
UpdateResultUpsert(its, id, body) ==
    LET parsedBody == JSONParse(body)
        at == Find(its, id)
        name == NameOf(parsedBody)
    IN  IF parsedBody.threw \/ name.threw
        THEN [items |-> its, out |-> Message(400, "Invalid request")]
        ELSE IF at = 0
        THEN [items |-> Push(its, NewItem(id.val, name.value)),
              out |-> Message(200, "Item updated")]
        ELSE [items |-> [its EXCEPT ![at].name = name.value],
              out |-> Message(200, "Item updated")]

\* a try block that looks the item up before it parses the body
UpdateResultFindFirst(its, id, body) ==
    LET parsedBody == JSONParse(body)
        at == Find(its, id)
        name == NameOf(parsedBody)
    IN  IF at = 0
        THEN [items |-> its, out |-> Message(404, "Item not found")]
        ELSE IF parsedBody.threw \/ name.threw
        THEN [items |-> its, out |-> Message(400, "Invalid request")]
        ELSE [items |-> [its EXCEPT ![at].name = name.value],
              out |-> Message(200, "Item updated")]

\* index.js:134-148: the try/catch of the PUT end callback, run on the store
\* its, for the id of the request and its complete body: the store it
\* leaves and the response it writes
UpdateResult(its, id, body) ==
    LET parsedBody == JSONParse(body)
        at == Find(its, id)
        name == NameOf(parsedBody)
    IN  IF parsedBody.threw
        THEN [items |-> its, out |-> Message(400, "Invalid request")]
        ELSE IF at = 0
        THEN [items |-> its, out |-> Message(404, "Item not found")]
        ELSE IF name.threw
        THEN [items |-> its, out |-> Message(400, "Invalid request")]
        ELSE [items |-> [its EXCEPT ![at].name = name.value],
              out |-> Message(200, "Item updated")]

\* index.js:133-149: request.on("end") of PUT /items/{id}
UpdateEnd(i) ==
    /\ i \in 1..Len(inflight)
    /\ inflight[i].body \in texts
    /\ inflight[i].branch = "update"
    /\ LET result == UpdateResult(items, inflight[i].id, inflight[i].body)
       IN  /\ items' = result.items
           /\ out' = result.out
    /\ inflight' = Remove(inflight, i)
    /\ req' = NoRequest
    /\ done' = inflight[i]
    /\ place' = i
    /\ prev' = items
    /\ UNCHANGED <<now, nreq, texts, others>>

\* the millisecond clock advances
Tick ==
    /\ now < MaxTime
    /\ now' = now + 1
    /\ req' = NoRequest
    /\ done' = NoWaiting
    /\ place' = 0
    /\ out' = NoResponse
    /\ prev' = items
    /\ UNCHANGED <<items, inflight, nreq, texts, others>>

Next ==
    \/ Request
    \/ \E i \in 1..Len(inflight) : \E chunk \in Chunks(inflight[i].body) : Data(i, chunk)
    \/ \E i \in 1..Len(inflight) : CreateEnd(i)
    \/ \E i \in 1..Len(inflight) : UpdateEnd(i)
    \/ Tick

Spec == Init /\ [][Next]_vars

\* the server with clients that send no string for a name
InitTyped == OthersOff /\ CrudStart(TypedBodies)

SpecTyped == InitTyped /\ [][Next]_vars

(***************************************************************************)
(* Properties.  Each one relates the state before the latest step (prev)   *)
(* to the state after it, for the request (req) or the completed body      *)
(* (done) that the step handled and the response (out) that it wrote.      *)
(***************************************************************************)
NameXBody == <<OpenName, CloseX>>

\* the url /items/n of a one-digit id
UrlOfId(n) == ItemsPrefix \o <<Digits[n + 1]>>

\* the urls /items/... whose last segment holds no number
NoIdUrls == {ItemsPrefix, ItemsPrefix \o <<"a">>}

\* the requests that go to the collection, with or without a query string
CollectionUrls == {ItemsPath, ItemsPath \o <<"?", "a">>}

IdsOf(its) == {its[k].id : k \in 1..Len(its)}

CountId(its, n) == Cardinality({k \in 1..Len(its) : its[k].id = n})

\* the latest step answered a GET on the collection
IsList == req.method = "GET" /\ req.url \in CollectionUrls

\* the latest step handled DELETE /items/n
IsDelete(n) == req.method = "DELETE" /\ req.url = UrlOfId(n)

\* a GET on the collection is answered with the store as it is, item by item
GetShowsStore ==
    IsList =>
        /\ out.status = 200 /\ out.kind = "items"
        /\ items = prev
        /\ Len(out.list) = Len(items)
        /\ \A k \in 1..Len(items) :
            /\ out.list[k].id = items[k].id
            /\ items[k].name.type = "string" =>
                "name" \in DOMAIN out.list[k] /\ out.list[k].name = items[k].name

\* C1: when the body {"name":"X"} of a POST /items has ended, the answer is
\* 201 and the store is the previous store, unchanged and in the same order,
\* followed by exactly one new item named "X" whose id is the current time;
\* a GET /items shows the store as it is.
C1_PostAppendsItem ==
    /\ (done.branch = "create" /\ done.body = NameXBody) =>
        /\ out.status = 201 /\ out.message = "Item added"
        /\ items = prev \o <<[id |-> now, name |-> Str("X")]>>
    /\ GetShowsStore

C1_Witness ==
    /\ done.branch = "create" /\ done.body = NameXBody
    /\ out.status = 201
    /\ Len(prev) >= 1
    /\ Len(items) = Len(prev) + 1

\* C2: when the body {"name":"X"} of a PUT /items/{id} has ended: if the
\* store held an item with that id the answer is 200, the store keeps its
\* length and ids and an item with that id now has the name "X" (and a GET
\* shows it); if it held none the answer is 404 and the store is unchanged.
C2_PutUpdatesOrNotFound ==
    /\ (done.branch = "update" /\ done.body = NameXBody) =>
        IF ~done.id.nan /\ done.id.val \in IdsOf(prev)
        THEN /\ out.status = 200 /\ out.message = "Item updated"
             /\ Len(items) = Len(prev)
             /\ \A k \in 1..Len(prev) : items[k].id = prev[k].id
             /\ \E k \in 1..Len(prev) :
                    items[k].id = done.id.val /\ items[k].name = Str("X")
        ELSE /\ out.status = 404 /\ out.message = "Item not found"
             /\ items = prev
    /\ GetShowsStore

C2_Witness ==
    /\ done.branch = "update" /\ done.body = NameXBody
    /\ out.status = 200
    /\ items # prev

\* C3: after DELETE /items/n has been answered the store holds no item with
\* id n, and the items with other ids remain, unchanged and in the same
\* order; only the end of a POST body brings an id into the store, and a GET
\* lists exactly the ids of the store, so a later GET does not show n.
C3_DeleteRemovesId ==
    /\ \A n \in 0..9 : IsDelete(n) =>
        /\ n \notin IdsOf(items)
        /\ items = SelectSeq(prev, LAMBDA it : it.id # n)
    /\ done.branch # "create" => IdsOf(items) \subseteq IdsOf(prev)
    /\ IsList => {out.list[k].id : k \in 1..Len(out.list)} = IdsOf(items)

C3_Witness ==
    /\ \E n \in 0..9 : IsDelete(n) /\ n \in IdsOf(prev)
    /\ items # <<>>
    /\ items # prev

\* C4: a POST /items whose body is not JSON is answered 400 and nothing is
\* appended: the store is as it was.
C4_PostBadBody ==
    (done.branch = "create" /\ done.body \in {<<OpenName>>, <<>>}) =>
        /\ out.status = 400 /\ out.message = "Invalid request"
        /\ items = prev

C4_Witness ==
    /\ done.branch = "create" /\ done.body = <<OpenName>>
    /\ out.status = 400
    /\ prev # <<>>

\* the request of the latest step matches none of the five routes
MatchesNoRoute ==
    LET p == Pathname(req.url)
    IN  /\ req # NoRequest
        /\ p # RootPath
        /\ ~(p = ItemsPath /\ req.method \in {"GET", "POST"})
        /\ ~(StartsWith(p, ItemsPrefix) /\ req.method \in {"PUT", "DELETE"})

\* C5: a request that matches none of the five routes is answered 404 with
\* the body {"message":"Not Found"}, and the store is as it was.
C5_NotFound ==
    MatchesNoRoute =>
        /\ out = [status |-> 404, ctype |-> JsonType, kind |-> "message",
                  message |-> "Not Found", list |-> <<>>]
        /\ items = prev

C5_Witness ==
    /\ req = [method |-> "GET", url |-> UrlOfId(1)]
    /\ out.message = "Not Found"
    /\ 1 \in IdsOf(items)

\* the rule of the router that a request meets first, in the order
\* '/', GET /items, POST /items, PUT /items/{id}, DELETE /items/{id}, other
FirstRule(method, u) ==
    LET p == Pathname(u)
    IN  CASE p = RootPath -> "ui"
          [] p # RootPath /\ p = ItemsPath /\ method = "GET" -> "list"
          [] p # RootPath /\ p = ItemsPath /\ method = "POST" -> "create"
          [] p # RootPath /\ p # ItemsPath /\ StartsWith(p, ItemsPrefix) /\ method = "PUT"
                -> "update"
          [] p # RootPath /\ p # ItemsPath /\ StartsWith(p, ItemsPrefix) /\ method = "DELETE"
                -> "delete"
          [] OTHER -> "notfound"

\* the step added one waiting request of branch b and wrote nothing
Registers(b) ==
    /\ out' = NoResponse
    /\ Len(inflight') = Len(inflight) + 1
    /\ SubSeq(inflight', 1, Len(inflight)) = inflight
    /\ inflight'[Len(inflight')].branch = b
    /\ inflight'[Len(inflight')].body = <<>>

\* what a step shows of the handler named h having run
Ran(h) ==
    CASE h = "ui" -> out'.kind = "html" /\ inflight' = inflight
      [] h = "list" -> out'.kind = "items" /\ inflight' = inflight
      [] h = "create" -> Registers("create")
      [] h = "update" -> Registers("update")
      [] h = "delete" -> out'.message = "Item deleted" /\ inflight' = inflight
      [] h = "notfound" -> out'.message = "Not Found" /\ inflight' = inflight

Handlers == {"ui", "list", "create", "update", "delete", "notfound"}

\* C6: every arriving request runs exactly one branch of the router, the
\* one of the first rule it meets: no request runs two handlers or none.
C6_ExactlyOneHandler ==
    [][nreq' = nreq + 1 =>
        \A h \in Handlers : Ran(h) <=> h = FirstRule(req'.method, req'.url)]_vars

C6_Witness ==
    /\ req = [method |-> "PUT", url |-> UrlOfId(1)]
    /\ out = NoResponse
    /\ Len(inflight) = 2
    /\ inflight[2].branch = "update" /\ inflight[1].branch = "create"

\* C7: a POST /items whose parsable body ends while the store already holds
\* an item with the id of the current millisecond is answered 201 all the
\* same, and its item is stored after the others with that same id: nothing
\* is rejected or merged.
C7_SameMillisecondCollides ==
    (/\ done.branch = "create"
     /\ done.body \in {NameXBody, <<EmptyObj>>}
     /\ now \in IdsOf(prev)) =>
        /\ out.status = 201
        /\ Len(items) = Len(prev) + 1
        /\ SubSeq(items, 1, Len(prev)) = prev
        /\ items[Len(items)].id = now
        /\ CountId(items, now) = CountId(prev, now) + 1

C7_Witness ==
    /\ done.branch = "create"
    /\ out.status = 201
    /\ Len(items) = 2
    /\ items[1].id = items[2].id

\* C8: DELETE /items/{id} is always answered 200 with the message
\* 'Item deleted'; when no stored item has that id the store is unchanged.
C8_DeleteAlwaysOk ==
    /\ (req.method = "DELETE" /\ StartsWith(Pathname(req.url), ItemsPrefix)) =>
        out = [status |-> 200, ctype |-> JsonType, kind |-> "message",
               message |-> "Item deleted", list |-> <<>>]
    /\ \A n \in 0..9 : (IsDelete(n) /\ n \notin IdsOf(prev)) => items = prev
    /\ (req.method = "DELETE" /\ req.url \in NoIdUrls) => items = prev

C8_Witness ==
    /\ IsDelete(2)
    /\ out.status = 200 /\ out.message = "Item deleted"
    /\ prev # <<>>
    /\ 2 \notin IdsOf(prev)
    /\ items = prev

\* C9: DELETE /items/n removes every stored item whose id is n, however
\* many there are, and no item with another id: each other id is held as
\* often as before.
C9_DeleteRemovesAllMatches ==
    \A n \in 0..9 : IsDelete(n) =>
        /\ CountId(items, n) = 0
        /\ Len(items) = Len(prev) - CountId(prev, n)
        /\ \A m \in IdsOf(prev) \ {n} : CountId(items, m) = CountId(prev, m)

C9_Witness ==
    /\ \E n \in 0..9 : IsDelete(n) /\ CountId(prev, n) >= 2
    /\ Len(items) = Len(prev) - 2

\* index of the first item of its with id n (0 when there is none)
FirstWithId(its, n) ==
    IF n \in IdsOf(its)
    THEN CHOOSE k \in 1..Len(its) : its[k].id = n /\ \A j \in 1..(k-1) : its[j].id # n
    ELSE 0

\* C10: a PUT /items/{id} answered 200 changes the name of the first item
\* with that id and nothing else: the other items with that id and the
\* items with other ids keep their names, and every item keeps its id.
C10_PutFirstMatchOnly ==
    (done.branch = "update" /\ out.status = 200) =>
        /\ ~done.id.nan
        /\ FirstWithId(prev, done.id.val) # 0
        /\ Len(items) = Len(prev)
        /\ \A k \in 1..Len(prev) :
            /\ items[k].id = prev[k].id
            /\ k # FirstWithId(prev, done.id.val) => items[k].name = prev[k].name
        /\ done.body = NameXBody =>
            items[FirstWithId(prev, done.id.val)].name = Str("X")
        /\ done.body = <<EmptyObj>> =>
            items[FirstWithId(prev, done.id.val)].name = Undefined

C10_Witness ==
    /\ done.branch = "update" /\ out.status = 200
    /\ CountId(prev, done.id.val) >= 2
    /\ items[1].name # prev[1].name
    /\ items[2].name = prev[2].name

\* C11: in every reachable state every stored item has a non-null id and a
\* name that is a string.
C11_ItemsWellFormed ==
    \A k \in 1..Len(items) :
        /\ items[k].id \in 1..now
        /\ items[k].name.type = "string"

\* what the JSON text of one item must be
JsonOfItem(it) ==
    IF it.name = Undefined THEN [id |-> it.id] ELSE [id |-> it.id, name |-> it.name]

\* the waiting POST requests whose body has arrived in full but has not ended
ReadyCreates ==
    {i \in 1..Len(inflight) :
        inflight[i].branch = "create" /\ inflight[i].body = NameXBody}

\* C12: GET /items is answered 200 with the JSON text of exactly the items
\* of the store, in their order (the empty array before any POST has
\* completed); it leaves the store as it is, and the items of POST requests
\* that still wait for the end of their body are not in the answer.
C12_ListIsStore ==
    IsList =>
        /\ out.status = 200 /\ out.ctype = JsonType /\ out.kind = "items"
        /\ items = prev
        /\ DOMAIN out.list = 1..Len(prev)
        /\ \A k \in 1..Len(prev) :
            /\ DOMAIN out.list[k] = DOMAIN JsonOfItem(prev[k])
            /\ \A f \in DOMAIN out.list[k] : out.list[k][f] = JsonOfItem(prev[k])[f]
        /\ nreq = 1 => out.list = <<>>

C12_Witness ==
    /\ IsList
    /\ Len(out.list) = 1
    /\ items[1].name = Str("X")
    /\ ReadyCreates # {}

\* C13: a request for the path '/' is answered 200 with the HTML document
\* whatever its method, the same answer whatever the store holds, and the
\* store is as it was.
C13_RootServesUI ==
    (req # NoRequest /\ Pathname(req.url) = RootPath) =>
        /\ out = [status |-> 200, ctype |-> HtmlType, kind |-> "html",
                  message |-> "", list |-> <<>>]
        /\ items = prev

C13_Witness ==
    /\ req = [method |-> "DELETE", url |-> RootPath]
    /\ out.kind = "html"
    /\ items # <<>>

\* the latest step handed a POST /items or a PUT /items/... to its handler
IsBodied ==
    \/ req.method = "POST" /\ req.url \in CollectionUrls
    \/ req.method = "PUT" /\ StartsWith(Pathname(req.url), ItemsPrefix)

\* a request arrives and is answered in the same step, and no waiting
\* request is touched
AnsweredArrival == Request /\ out' # NoResponse /\ inflight' = inflight

\* C14: a POST or PUT whose body has not ended gets no response and changes
\* nothing: a response is written only for the request that arrives or for
\* the one whose body ends in that step, the store changes only in such a
\* step, and a request that starts to wait is not answered at its arrival.
\* The waiting requests block nothing: as long as clients send requests,
\* one can arrive and be answered at once.
C14_WaitingBlocksNothing ==
    /\ out # NoResponse => (req # NoRequest \/ done # NoWaiting)
    /\ items # prev => (req # NoRequest \/ done # NoWaiting)
    /\ IsBodied => (out = NoResponse /\ items = prev)
    /\ nreq < MaxReq => ENABLED AnsweredArrival

C14_Witness ==
    /\ Len(inflight) = 1
    /\ inflight[1].body = <<OpenName>>
    /\ IsList /\ out.status = 200
    /\ items # <<>>

\* the bodies that parse to a JSON object
ObjectBodies == {NameXBody, <<EmptyObj>>}

\* C15 as stated: a PUT on an id is answered 200 when its body ends while
\* the item is in the store (before the DELETE) and 404 when it ends while
\* it is not (after the DELETE), whatever its body; the DELETE is answered
\* 200 and leaves no item with the id; the PUT never brings the id back.
C15_AsStated ==
    /\ (done.branch = "update" /\ ~done.id.nan) =>
        /\ out.status = (IF done.id.val \in IdsOf(prev) THEN 200 ELSE 404)
        /\ IdsOf(items) = IdsOf(prev)
    /\ \A n \in 0..9 : IsDelete(n) => (out.status = 200 /\ n \notin IdsOf(items))

\* a PUT for id n waits with its complete body
PutWaits(n) ==
    \E i \in 1..Len(inflight) :
        /\ inflight[i].branch = "update"
        /\ inflight[i].id = Int10(n)
        /\ inflight[i].body = NameXBody

C15_StateOfRace ==
    /\ (done.branch = "update" /\ ~done.id.nan /\ done.body \in ObjectBodies) =>
        out.status = (IF done.id.val \in IdsOf(prev) THEN 200 ELSE 404)
    /\ done.branch = "update" =>
        /\ Len(items) = Len(prev)
        /\ \A k \in 1..Len(prev) : items[k].id = prev[k].id
    /\ \A n \in 0..9 : IsDelete(n) => (out.status = 200 /\ n \notin IdsOf(items))

\* C15, amended: for a PUT whose body parses to a JSON object and a DELETE
\* on the same id: the PUT is answered 200 when its body ends while the item
\* is in the store (before the DELETE) and 404 when it ends while it is not;
\* the DELETE is answered 200 in both orders and leaves no item with the id,
\* without touching the waiting PUT; no PUT changes the ids of the store,
\* and an id that is absent comes back only by the end of a POST body, so
\* after both requests the store holds no item with the id.
C15_PutDeleteRace ==
    /\ []C15_StateOfRace
    /\ [][\A n \in 0..9 :
            /\ (n \notin IdsOf(items) /\ n \in IdsOf(items')) => done'.branch = "create"
            /\ (IsDelete(n)' /\ nreq' = nreq + 1) => inflight' = inflight]_vars

C15_Witness ==
    \E n \in 0..9 :
        /\ IsDelete(n)
        /\ n \in IdsOf(prev)
        /\ PutWaits(n)

\* the name that an object body gives
NameIn(body) == IF body = NameXBody THEN Str("X") ELSE Undefined

\* the store that the request handled by the latest step leaves when it is
\* applied as a whole, alone, to the store s at the current time: a POST
\* appends, a PUT renames the first item with its id, a DELETE drops the
\* items with its id, and every other request leaves s as it is
AppliedAlone(s) ==
    IF done.branch = "create" /\ done.body \in ObjectBodies
    THEN s \o <<[id |-> now, name |-> NameIn(done.body)]>>
    ELSE IF /\ done.branch = "update" /\ done.body \in ObjectBodies
            /\ ~done.id.nan /\ FirstWithId(s, done.id.val) # 0
    THEN [s EXCEPT ![FirstWithId(s, done.id.val)].name = NameIn(done.body)]
    ELSE IF \E n \in 0..9 : IsDelete(n)
    THEN SelectSeq(s, LAMBDA it : ~IsDelete(it.id))
    ELSE s

\* C16: every step leaves the store that its request, applied as a whole to
\* the store before the step, would leave: POST and PUT act in the step
\* that ends their body, DELETE in the step of its arrival, and the arrival
\* of a POST or PUT, a data event and every other request change nothing.
\* So the store after any interleaving is the store of the requests applied
\* one after another in the order of these steps.
C16_StepsAreSerial ==
    /\ items = AppliedAlone(prev)
    /\ (done = NoWaiting /\ ~(req.method = "DELETE")) => items = prev

C16_Witness ==
    /\ done.branch = "update" /\ out.status = 200
    /\ items # prev
    /\ Len(inflight) = 1
    /\ inflight[1].body = <<OpenName>>

\* the bodies that are not JSON
BadBodies == {<<OpenName>>, <<>>}

\* C17: a PUT /items/{id} whose body is not JSON is answered 400 whether
\* the store holds an item with that id or not (never 404), and the store
\* is as it was.
C17_PutBadBody ==
    (done.branch = "update" /\ done.body \in BadBodies) =>
        /\ out = [status |-> 400, ctype |-> JsonType, kind |-> "message",
                  message |-> "Invalid request", list |-> <<>>]
        /\ items = prev

C17_Witness ==
    /\ done.branch = "update" /\ done.body = <<OpenName>>
    /\ out.status = 400
    /\ prev # <<>>
    /\ done.id.val \notin IdsOf(prev)

\* C18: whenever a POST /items or a PUT /items/{id} is answered 400 the
\* store is exactly as it was before the step that ended the body; a body
\* null is answered 400 by POST, and by PUT when the item exists, and the
\* store is as it was then too.
C18_BadRequestKeepsStore ==
    /\ out.status = 400 => (done # NoWaiting /\ items = prev)
    /\ (done.branch = "create" /\ done.body = <<NullLit>>) =>
        (out.status = 400 /\ items = prev)
    /\ (done.branch = "update" /\ done.body = <<NullLit>>
            /\ ~done.id.nan /\ done.id.val \in IdsOf(prev)) =>
        (out.status = 400 /\ items = prev)

C18_Witness ==
    /\ done.branch = "update" /\ done.body = <<NullLit>>
    /\ out.status = 400
    /\ done.id.val \in IdsOf(prev)

\* C19: a request is answered once, in one step: a POST /items or a PUT
\* /items/{id} is not answered at its arrival but starts to wait, and is
\* answered in the step that ends its body, which also ends its waiting;
\* every other request is answered at its arrival and never waits; no other
\* step writes a response.
C19_OneResponseEach ==
    [][/\ (nreq' = nreq + 1 /\ IsBodied') =>
            /\ out' = NoResponse
            /\ inflight' = Append(inflight, inflight'[Len(inflight')])
            /\ inflight'[Len(inflight')].body = <<>>
       /\ (nreq' = nreq + 1 /\ ~IsBodied') =>
            /\ out' # NoResponse
            /\ inflight' = inflight
       /\ (nreq' = nreq /\ out' # NoResponse) =>
            \E i \in 1..Len(inflight) :
                /\ done' = inflight[i]
                /\ inflight' = Remove(inflight, i)
       /\ done' # NoWaiting => (out' # NoResponse /\ Len(inflight') = Len(inflight) - 1)
      ]_vars

C19_Witness ==
    /\ done.branch = "create" /\ out.status = 201
    /\ Len(inflight) = 1
    /\ inflight[1].branch = "update"
    /\ nreq = 3

\* the bodies that JSON.parse accepts
ParsableBodies == ObjectBodies \cup {<<NullLit>>}

\* C20: when the id segment of the path holds no integer (/items/a, or
\* /items/ with an empty segment) the id of the request is NaN; a PUT with a
\* parsable body is then answered 404 and a DELETE 200, and in both cases
\* the store is as it was: no item is matched.
C20_NoIntegerId ==
    /\ (req.method = "PUT" /\ req.url \in NoIdUrls) =>
        /\ inflight # <<>>
        /\ inflight[Len(inflight)].id.nan
    /\ (done.branch = "update" /\ done.id.nan /\ done.body \in ParsableBodies) =>
        /\ out.status = 404 /\ out.message = "Item not found"
        /\ items = prev
    /\ (req.method = "DELETE" /\ req.url \in NoIdUrls) =>
        /\ out.status = 200 /\ out.message = "Item deleted"
        /\ items = prev

C20_Witness ==
    /\ done.branch = "update" /\ done.id.nan /\ done.body = NameXBody
    /\ out.status = 404
    /\ Len(prev) = 2

NameOneBody == <<OpenName, CloseOne>>

\* the bodies that parse to a JSON value other than null
ValueBodies == {NameXBody, NameOneBody, <<EmptyObj>>, <<NumLit>>}

\* the name that such a body carries: the value of its name property, or
\* undefined when it is an object without one or no object at all
CarriedName(body) ==
    IF body = NameXBody THEN Str("X")
    ELSE IF body = NameOneBody THEN Num(1)
    ELSE Undefined

\* C21: nothing validates the name.  When the body of a POST /items has
\* ended and it parses to a JSON value other than null, the answer is 201
\* and exactly one item is appended, whose name is what the body carries:
\* the number of {"name":1}, and undefined for {} and for the number 5.
\* When a PUT is answered 200, the first item with its id has the name that
\* its body carries, a number or none included, and nothing else changed.
C21_NoSchemaValidation ==
    /\ (done.branch = "create" /\ done.body \in ValueBodies) =>
        /\ out.status = 201 /\ out.message = "Item added"
        /\ items = prev \o <<[id |-> now, name |-> CarriedName(done.body)]>>
    /\ (done.branch = "update" /\ out.status = 200) =>
        /\ done.body \in ValueBodies
        /\ ~done.id.nan
        /\ FirstWithId(prev, done.id.val) # 0
        /\ items = [prev EXCEPT
                       ![FirstWithId(prev, done.id.val)].name = CarriedName(done.body)]

C21_Witness ==
    /\ done.branch = "update" /\ done.body = <<NumLit>>
    /\ out.status = 200
    /\ \E k \in 1..Len(prev) : prev[k].name = Num(1) /\ items[k].name = Undefined
    /\ \E k \in 1..Len(items) : items[k].name = Num(1)

\* the ids of a store, in its order
IdSeq(its) == [k \in 1..Len(its) |-> its[k].id]

\* C22: the store is in the order in which the POST bodies ended.  The end
\* of a POST body puts its item behind all the items of the store, whatever
\* place the request has among the waiting ones (their order is that of
\* arrival), so that the ids, which are the times of these ends, never
\* decrease along the store; a GET lists the items in the order of the
\* store.  A PUT leaves every item at its place, and a DELETE leaves the
\* items that remain in the order they had.
C22_CompletionOrder ==
    /\ (done.branch = "create" /\ out.status = 201) =>
        /\ Len(items) = Len(prev) + 1
        /\ SubSeq(items, 1, Len(prev)) = prev
        /\ items[Len(items)].id = now
    /\ \A j, k \in 1..Len(items) : j < k => items[j].id <= items[k].id
    /\ IsList => IdSeq(out.list) = IdSeq(items)
    /\ done.branch = "update" => IdSeq(items) = IdSeq(prev)
    /\ \A n \in 0..9 : IsDelete(n) =>
        items = SelectSeq(prev, LAMBDA it : it.id # n)
    /\ (req.method = "DELETE" /\ ~(\E n \in 0..9 : IsDelete(n))) => items = prev

C22_Witness ==
    /\ done.branch = "create" /\ out.status = 201
    /\ place = 2
    /\ inflight # <<>> /\ inflight[1].branch = "create"
    /\ Len(prev) = 1
    /\ items[2].name # prev[1].name

\* the latest step handled a DELETE on a path /items/...
IsAnyDelete ==
    req.method = "DELETE" /\ StartsWith(Pathname(req.url), ItemsPrefix)

\* C23: the number of items grows only in the step that ends the body of a
\* POST /items and answers 201, and then by exactly one; it shrinks only in
\* the step of a DELETE /items/...; the end of a PUT body, a GET /items, a
\* request for '/', a request that matches no route and every step that
\* answers 400 or 404 leave the number of items and the id of every item
\* as they were, and so does every step that writes no response.
C23_CountChanges ==
    /\ Len(items) > Len(prev) =>
        /\ done.branch = "create" /\ out.status = 201
        /\ Len(items) = Len(prev) + 1
    /\ (done.branch = "create" /\ out.status = 201) => Len(items) = Len(prev) + 1
    /\ Len(items) < Len(prev) => (IsAnyDelete /\ out.message = "Item deleted")
    /\ (\/ done.branch = "update"
        \/ IsList
        \/ req # NoRequest /\ Pathname(req.url) = RootPath
        \/ MatchesNoRoute
        \/ out.status \in {400, 404}
        \/ out = NoResponse) => IdSeq(items) = IdSeq(prev)

C23_Witness ==
    /\ done.branch = "update" /\ out.status = 200
    /\ Len(prev) = 2
    /\ prev[1].id = prev[2].id
    /\ items # prev

(***************************************************************************)
(* Part 2: the form server (index.js, 166-203).                            *)
(***************************************************************************)
crudVars == <<items, inflight, req, done, place, out, prev, now, nreq, texts>>

FormMethods == {"GET", "POST"}

SubmitPath == <<"/", "s", "u", "b", "m", "i", "t">>

FormUrls ==
    {SubmitPath, SubmitPath \o <<"?", "a">>, SubmitPath \o <<"/">>, RootPath}

\* the urlencoded texts that the clients send: the empty one, a=1 and a=+&b
FormTexts ==
    {<<>>, <<"a", "=", "1">>, <<"a", "=", "+", "&", "b">>}

SuccessHtml ==
    "<h1>Form Submitted Successfully</h1><p>Thank you for your submission!</p>"

NotFoundHtml ==
    "<h1>404 Not Found</h1><p>The page you are looking for does not exist.</p>"

\* the chunks a client may send next, given the body received so far
FormChunks(body) ==
    UNION {{SubSeq(t, Len(body) + 1, j) : j \in (Len(body) + 1)..Len(t)} :
              t \in {x \in FormTexts : StartsWith(x, body)}}

\* querystring.unescape of a value in which + stands for a space
Unescape(t) == [k \in 1..Len(t) |-> IF t[k] = "+" THEN " " ELSE t[k]]

\* one key=value field: a field without = has the empty value
Field(part) ==
    LET i == IndexOf(part, "=")
    IN  IF i = 0 THEN [key |-> Unescape(part), value |-> <<>>]
        ELSE [key |-> Unescape(SubSeq(part, 1, i-1)),
              value |-> Unescape(SubSeq(part, i+1, Len(part)))]

\* querystring.parse(body): the fields between the & signs, empty ones
\* skipped (the texts of the clients repeat no key)
QsParse(body) ==
    LET parts == SelectSeq(Split(body, "&"), LAMBDA p : p # <<>>)
    IN  [k \in 1..Len(parts) |-> Field(parts[k])]

\* a test that leaves the method out
FormRouteAnyMethod(method, u) ==
    IF Pathname(u) = SubmitPath THEN "submit" ELSE "notfound"

\* method === "POST" && parsedUrl.pathname === "/submit"
FormRoute(method, u) ==
    IF method = "POST" /\ Pathname(u) = SubmitPath THEN "submit" ELSE "notfound"

\* index.js:175-181: the listeners are registered, nothing is written
FormSubmit(method, u) ==
    /\ FormRoute(method, u) = "submit"
    /\ Len(formWaiting) < MaxInflight
    /\ formWaiting' = Append(formWaiting,
            [n |-> formCount + 1, method |-> method, url |-> u, body |-> <<>>])
    /\ formLast' = [NoFormStep EXCEPT !.n = formCount + 1, !.method = method, !.url = u]
    /\ UNCHANGED formAnswers

\* index.js:192-197
FormNotFound(method, u) ==
    /\ FormRoute(method, u) = "notfound"
    /\ formAnswers' = [formAnswers EXCEPT ![formCount + 1] = @ + 1]
    /\ formLast' = [NoFormStep EXCEPT !.n = formCount + 1, !.method = method, !.url = u,
                        !.status = 404, !.ctype = HtmlType, !.text = NotFoundHtml]
    /\ UNCHANGED formWaiting

\* the createServer callback of the form server
FormRequest ==
    /\ formCount < MaxReq
    /\ formCount' = formCount + 1
    /\ \E method \in FormMethods, u \in FormUrls :
        \/ FormSubmit(method, u)
        \/ FormNotFound(method, u)
    /\ UNCHANGED <<crudVars, fsVars, calcVars>>

\* req.on("data"): body += chunk
FormData(i, chunk) ==
    /\ i \in 1..Len(formWaiting)
    /\ chunk \in FormChunks(formWaiting[i].body)
    /\ formWaiting' = [formWaiting EXCEPT ![i].body = @ \o chunk]
    /\ formLast' = NoFormStep
    /\ UNCHANGED <<formAnswers, formCount, crudVars, fsVars, calcVars>>

\* index.js:182-191: req.on("end")
FormEnd(i) ==
    /\ i \in 1..Len(formWaiting)
    /\ formWaiting[i].body \in FormTexts
    /\ LET r == formWaiting[i]
           formData == QsParse(r.body)
       IN  /\ formLast' = [n |-> r.n, method |-> r.method, url |-> r.url,
                           atEnd |-> TRUE, body |-> r.body,
                           status |-> 200, ctype |-> HtmlType, text |-> SuccessHtml,
                           log |-> formData]
           /\ formAnswers' = [formAnswers EXCEPT ![r.n] = @ + 1]
    /\ formWaiting' = Remove(formWaiting, i)
    /\ UNCHANGED <<formCount, crudVars, fsVars, calcVars>>

NextForm ==
    \/ FormRequest
    \/ \E i \in 1..Len(formWaiting) :
            \E chunk \in FormChunks(formWaiting[i].body) : FormData(i, chunk)
    \/ \E i \in 1..Len(formWaiting) : FormEnd(i)

InitForm == CrudOff /\ FsOff /\ CalcOff /\ CliOff /\ FormStart

SpecForm == InitForm /\ [][NextForm]_vars

\* a request for the form: POST on /submit, with or without a query string
IsSubmit(method, u) ==
    method = "POST" /\ u \in {SubmitPath, SubmitPath \o <<"?", "a">>}

\* the numbers of the requests that wait for the end of their body
FormWaitingNumbers == {formWaiting[i].n : i \in 1..Len(formWaiting)}

\* the fields that each text of the clients holds
FieldsOf(body) ==
    IF body = <<"a", "=", "1">> THEN <<[key |-> <<"a">>, value |-> <<"1">>]>>
    ELSE IF body = <<"a", "=", "+", "&", "b">>
    THEN <<[key |-> <<"a">>, value |-> <<" ">>], [key |-> <<"b">>, value |-> <<>>]>>
    ELSE <<>>

\* C24: in the form server a POST on the pathname /submit is not answered
\* at its arrival: it waits, and the step that ends its body answers 200
\* with 'Form Submitted Successfully'; a request with any other method or
\* path is answered 404 at its arrival and never waits; 200 is written in
\* no other step and for no other request.  No request has more than one
\* response, a waiting request has none, and the answer and the logged
\* fields of a request come from that request alone.
C24_FormServer ==
    /\ (formLast.n # 0 /\ ~formLast.atEnd) =>
        IF IsSubmit(formLast.method, formLast.url)
        THEN /\ formLast.status = 0
             /\ formAnswers[formLast.n] = 0
             /\ formWaiting # <<>>
             /\ formWaiting[Len(formWaiting)] =
                    [n |-> formLast.n, method |-> formLast.method,
                     url |-> formLast.url, body |-> <<>>]
        ELSE /\ formLast.status = 404 /\ formLast.text = NotFoundHtml
             /\ formAnswers[formLast.n] = 1
             /\ formLast.n \notin FormWaitingNumbers
    /\ formLast.atEnd =>
        /\ IsSubmit(formLast.method, formLast.url)
        /\ formLast.status = 200 /\ formLast.text = SuccessHtml
        /\ formLast.body \in FormTexts
        /\ formLast.log = FieldsOf(formLast.body)
        /\ formAnswers[formLast.n] = 1
        /\ formLast.n \notin FormWaitingNumbers
    /\ formLast.status = 200 => formLast.atEnd
    /\ \A n \in 1..MaxReq :
        /\ formAnswers[n] <= 1
        /\ n > formCount => formAnswers[n] = 0
        /\ n \in FormWaitingNumbers => formAnswers[n] = 0
    /\ \A i \in 1..Len(formWaiting) :
        IsSubmit(formWaiting[i].method, formWaiting[i].url)

C24_Witness ==
    /\ formLast.atEnd /\ formLast.status = 200
    /\ formLast.body = <<"a", "=", "+", "&", "b">>
    /\ formLast.n = 2
    /\ formAnswers[1] = 1
    /\ Len(formWaiting) = 1 /\ formWaiting[1].body = <<"a", "=">>

(***************************************************************************)
(* Part 3: the file-system demo (second/index.js, 26-121).                 *)
(*                                                                         *)
(* An asynchronous operation and its callback are one step: the operation  *)
(* fails (err) when the disk does not allow it, and it may fail for a      *)
(* reason outside the model too; a failed operation leaves the disk as it  *)
(* is.                                                                     *)
(***************************************************************************)
\* the operations of the chain of lines 40-81, in the order of the source
ChainOrder ==
    <<"writeFile", "readFile", "appendFile", "readFile", "rename", "unlink", "rmdir">>

Content == "Hello, Node.js! This is an example of file system operations."
AdditionalContent == "\nAppended text to the file using fs module."

\* the disks the script may find: exampleDir present or not, and when it is
\* present, with or without a stray file and an older exampleFile.txt;
\* nonExistentFile.txt present or not
Disks ==
    {[EmptyDisk EXCEPT !.other = o] : o \in BOOLEAN}
    \cup {[EmptyDisk EXCEPT !.dir = TRUE, !.stray = st, !.other = o,
                            !.example = IF old THEN [exists |-> TRUE, data |-> <<"old">>]
                                        ELSE NoFile] :
            st \in BOOLEAN, o \in BOOLEAN, old \in BOOLEAN}

Line(text) == [text |-> text, data |-> <<>>]

\* a callback that goes on whatever error it gets
ProceedsAlways(err) == TRUE

\* if (err) throw err: the callback goes on only without an error
Proceeds(err) == ~err

\* the process after a callback of the chain
ProcAfter(err) == IF Proceeds(err) THEN "running" ELSE "crashed"

\* the chain after the callback of its k-th operation: the callback records
\* nothing itself; the model notes whether the operation failed, and the
\* callback starts the next operation when it goes on
ChainAfter(c, k, err) ==
    LET seen == IF err THEN [c EXCEPT !.failed = k]
                ELSE [c EXCEPT !.succeeded = Append(@, ChainOrder[k])]
    IN  IF Proceeds(err) /\ k < Len(ChainOrder)
        THEN [seen EXCEPT !.pending = k + 1, !.started = Append(@, ChainOrder[k + 1])]
        ELSE [seen EXCEPT !.pending = 0]

\* what a callback of the chain prints
PrintedAfter(err, line) == IF Proceeds(err) THEN line ELSE NoLine

\* second/index.js:26-102, the synchronous part of the script: the
\* directory is made when it is missing, then writeFile, access and the
\* write stream are started
RunScript(err) ==
    /\ fsProc = "init"
    /\ err => ~fsDisk.dir
    /\ IF err
       THEN /\ fsProc' = "crashed"
            /\ UNCHANGED <<fsDisk, fsChain, fsAccess, fsStream, fsPrinted>>
       ELSE /\ fsProc' = "running"
            /\ fsDisk' = [fsDisk EXCEPT !.dir = TRUE]
            /\ fsPrinted' = IF fsDisk.dir THEN NoLine
                            ELSE Line("Directory \"exampleDir\" created!")
            /\ fsChain' = [NoChain EXCEPT !.pending = 1, !.started = <<ChainOrder[1]>>]
            /\ fsAccess' = "access"
            /\ fsStream' = [pc |-> "writing", read |-> 0]
    /\ UNCHANGED <<crudVars, formVars, calcVars>>

\* second/index.js:40-45
WriteFileDone(err) ==
    /\ fsProc = "running" /\ fsChain.pending = 1
    /\ ~fsDisk.dir => err
    /\ fsDisk' = IF err THEN fsDisk
                 ELSE [fsDisk EXCEPT !.example = [exists |-> TRUE, data |-> <<Content>>]]
    /\ fsChain' = ChainAfter(fsChain, 1, err)
    /\ fsProc' = ProcAfter(err)
    /\ fsPrinted' = PrintedAfter(err, Line("File \"exampleFile.txt\" written successfully!"))
    /\ UNCHANGED <<fsAccess, fsStream, crudVars, formVars, calcVars>>

\* second/index.js:45-51
ReadFileDone(err) ==
    /\ fsProc = "running" /\ fsChain.pending = 2
    /\ ~fsDisk.example.exists => err
    /\ fsChain' = ChainAfter(fsChain, 2, err)
    /\ fsProc' = ProcAfter(err)
    /\ fsPrinted' = PrintedAfter(err, [text |-> "File Content: ", data |-> fsDisk.example.data])
    /\ UNCHANGED <<fsDisk, fsAccess, fsStream, crudVars, formVars, calcVars>>

\* second/index.js:51-56
AppendFileDone(err) ==
    /\ fsProc = "running" /\ fsChain.pending = 3
    /\ ~fsDisk.dir => err
    /\ fsDisk' = IF err THEN fsDisk
                 ELSE [fsDisk EXCEPT !.example =
                        [exists |-> TRUE, data |-> Append(@.data, AdditionalContent)]]
    /\ fsChain' = ChainAfter(fsChain, 3, err)
    /\ fsProc' = ProcAfter(err)
    /\ fsPrinted' = PrintedAfter(err, Line("Data appended to the file!"))
    /\ UNCHANGED <<fsAccess, fsStream, crudVars, formVars, calcVars>>

\* second/index.js:56-62
ReadUpdatedDone(err) ==
    /\ fsProc = "running" /\ fsChain.pending = 4
    /\ ~fsDisk.example.exists => err
    /\ fsChain' = ChainAfter(fsChain, 4, err)
    /\ fsProc' = ProcAfter(err)
    /\ fsPrinted' = PrintedAfter(err,
            [text |-> "Updated File Content: ", data |-> fsDisk.example.data])
    /\ UNCHANGED <<fsDisk, fsAccess, fsStream, crudVars, formVars, calcVars>>

\* second/index.js:62-67
RenameDone(err) ==
    /\ fsProc = "running" /\ fsChain.pending = 5
    /\ ~fsDisk.example.exists => err
    /\ fsDisk' = IF err THEN fsDisk
                 ELSE [fsDisk EXCEPT !.renamed = fsDisk.example, !.example = NoFile]
    /\ fsChain' = ChainAfter(fsChain, 5, err)
    /\ fsProc' = ProcAfter(err)
    /\ fsPrinted' = PrintedAfter(err, Line("File renamed to \"renamedFile.txt\""))
    /\ UNCHANGED <<fsAccess, fsStream, crudVars, formVars, calcVars>>

\* second/index.js:67-72
UnlinkDone(err) ==
    /\ fsProc = "running" /\ fsChain.pending = 6
    /\ ~fsDisk.renamed.exists => err
    /\ fsDisk' = IF err THEN fsDisk ELSE [fsDisk EXCEPT !.renamed = NoFile]
    /\ fsChain' = ChainAfter(fsChain, 6, err)
    /\ fsProc' = ProcAfter(err)
    /\ fsPrinted' = PrintedAfter(err, Line("File \"renamedFile.txt\" deleted!"))
    /\ UNCHANGED <<fsAccess, fsStream, crudVars, formVars, calcVars>>

\* second/index.js:72-75: rmdir fails on a directory that is not empty
RmdirDone(err) ==
    /\ fsProc = "running" /\ fsChain.pending = 7
    /\ (\/ ~fsDisk.dir \/ fsDisk.stray
        \/ fsDisk.example.exists \/ fsDisk.renamed.exists) => err
    /\ fsDisk' = IF err THEN fsDisk ELSE [fsDisk EXCEPT !.dir = FALSE]
    /\ fsChain' = ChainAfter(fsChain, 7, err)
    /\ fsProc' = ProcAfter(err)
    /\ fsPrinted' = PrintedAfter(err, Line("Directory \"exampleDir\" deleted!"))
    /\ UNCHANGED <<fsAccess, fsStream, crudVars, formVars, calcVars>>

\* second/index.js:85-95: the callback of fs.access
AccessDone(err) ==
    /\ fsProc = "running" /\ fsAccess = "access"
    /\ ~fsDisk.other => err
    /\ IF err
       THEN /\ fsPrinted' = Line("File does not exist, creating a new file...")
            /\ fsAccess' = "write"
       ELSE /\ fsPrinted' = Line("File exists!")
            /\ fsAccess' = "done"
    /\ UNCHANGED <<fsProc, fsDisk, fsChain, fsStream, crudVars, formVars, calcVars>>

\* second/index.js:88-91: the callback of the writeFile of line 88
OtherWriteDone(err) ==
    /\ fsProc = "running" /\ fsAccess = "write"
    /\ IF err
       THEN /\ fsProc' = "crashed"
            /\ fsPrinted' = NoLine
            /\ UNCHANGED <<fsDisk, fsAccess>>
       ELSE /\ fsDisk' = [fsDisk EXCEPT !.other = TRUE]
            /\ fsPrinted' = Line("New file created successfully!")
            /\ fsAccess' = "done"
            /\ UNCHANGED fsProc
    /\ UNCHANGED <<fsChain, fsStream, crudVars, formVars, calcVars>>

\* second/index.js:99-108: the two lines are written and the stream
\* finishes; an error of the write stream has no listener and is thrown
StreamFinish(err) ==
    /\ fsProc = "running" /\ fsStream.pc = "writing"
    /\ IF err
       THEN /\ fsProc' = "crashed"
            /\ fsPrinted' = NoLine
            /\ UNCHANGED <<fsDisk, fsStream>>
       ELSE /\ fsDisk' = [fsDisk EXCEPT !.large = 2]
            /\ fsPrinted' = Line("Large file written successfully using streams.")
            /\ fsStream' = [fsStream EXCEPT !.pc = "reading"]
            /\ UNCHANGED fsProc
    /\ UNCHANGED <<fsChain, fsAccess, crudVars, formVars, calcVars>>

\* second/index.js:109-111: a chunk of n lines is read
StreamData(n) ==
    /\ fsProc = "running" /\ fsStream.pc = "reading"
    /\ n \in 1..(fsDisk.large - fsStream.read)
    /\ fsStream' = [fsStream EXCEPT !.read = @ + n]
    /\ fsPrinted' = [text |-> "Reading chunk: ",
                     data |-> [k \in 1..n |-> fsStream.read + k]]
    /\ UNCHANGED <<fsProc, fsDisk, fsChain, fsAccess, crudVars, formVars, calcVars>>

\* second/index.js:113-115
StreamEnd ==
    /\ fsProc = "running" /\ fsStream.pc = "reading"
    /\ fsStream.read = fsDisk.large
    /\ fsStream' = [fsStream EXCEPT !.pc = "done"]
    /\ fsPrinted' = Line("Finished reading the large file.")
    /\ UNCHANGED <<fsProc, fsDisk, fsChain, fsAccess, crudVars, formVars, calcVars>>

\* second/index.js:117-119: the read stream fails; the error is printed
StreamError ==
    /\ fsProc = "running" /\ fsStream.pc = "reading"
    /\ fsStream' = [fsStream EXCEPT !.pc = "failed"]
    /\ fsPrinted' = Line("Error reading file:")
    /\ UNCHANGED <<fsProc, fsDisk, fsChain, fsAccess, crudVars, formVars, calcVars>>

InitFs == \E d \in Disks : CrudOff /\ FormOff /\ CalcOff /\ CliOff /\ FsStart(d)

NextFs ==
    \/ \E err \in BOOLEAN : RunScript(err)
    \/ \E err \in BOOLEAN : WriteFileDone(err)
    \/ \E err \in BOOLEAN : ReadFileDone(err)
    \/ \E err \in BOOLEAN : AppendFileDone(err)
    \/ \E err \in BOOLEAN : ReadUpdatedDone(err)
    \/ \E err \in BOOLEAN : RenameDone(err)
    \/ \E err \in BOOLEAN : UnlinkDone(err)
    \/ \E err \in BOOLEAN : RmdirDone(err)
    \/ \E err \in BOOLEAN : AccessDone(err)
    \/ \E err \in BOOLEAN : OtherWriteDone(err)
    \/ \E err \in BOOLEAN : StreamFinish(err)
    \/ \E n \in 1..2 : StreamData(n)
    \/ StreamEnd
    \/ StreamError

SpecFs == InitFs /\ [][NextFs]_vars

\* the first n operations of the chain
ChainPrefix(n) == SubSeq(ChainOrder, 1, n)

\* C25: in the file-system demo the operations start in the order write,
\* read, append, read, rename, unlink, rmdir, and each one starts only when
\* the callback of the one before it got no error: the operations started
\* are the successful ones, in that order, and at most one more.  rmdir
\* starts only when unlink has succeeded and the renamed file is gone, and
\* the directory disappears only when rmdir succeeds.  When a callback gets
\* an error, the operation that failed is the last one started and the
\* process has ended, so no later operation of the chain runs.
C25_ChainInOrder ==
    LET started == Len(fsChain.started)
        succeeded == Len(fsChain.succeeded)
    IN  /\ fsChain.started = ChainPrefix(started)
        /\ fsChain.succeeded = ChainPrefix(succeeded)
        /\ succeeded <= started /\ started <= succeeded + 1
        /\ fsChain.pending # 0 =>
            (fsChain.pending = started /\ succeeded = started - 1)
        /\ (fsChain.failed = 0 /\ fsChain.pending = 0 /\ started # 0) =>
            (started = Len(ChainOrder) /\ succeeded = Len(ChainOrder))
        /\ fsChain.failed # 0 =>
            /\ started = fsChain.failed
            /\ succeeded = fsChain.failed - 1
            /\ fsChain.pending = 0
            /\ fsProc = "crashed"
        /\ started = Len(ChainOrder) =>
            /\ fsChain.succeeded = ChainPrefix(Len(ChainOrder) - 1)
               \/ fsChain.succeeded = ChainOrder
            /\ ~fsDisk.renamed.exists /\ ~fsDisk.example.exists
        /\ (started # 0 /\ ~fsDisk.dir) => fsChain.succeeded = ChainOrder

C25_Witness ==
    /\ fsChain.failed = 6
    /\ fsChain.succeeded = ChainPrefix(5)
    /\ fsProc = "crashed"
    /\ fsDisk.dir /\ fsDisk.renamed.exists
    /\ fsDisk.renamed.data = <<Content, AdditionalContent>>

(***************************************************************************)
(* Part 4: the calculators (final1.js, second.js, third.js).               *)
(***************************************************************************)
Abs(n) == IF n < 0 THEN 0 - n ELSE n

Sign(n) == IF n < 0 THEN 0 - 1 ELSE IF n = 0 THEN 0 ELSE 1

RECURSIVE Gcd(_, _)
Gcd(a, b) == IF b = 0 THEN a ELSE Gcd(b, a % b)

\* the fraction n/d (d # 0) as a value
Ratio(n, d) ==
    LET g == Gcd(Abs(n), Abs(d))
    IN  [kind |-> "number", n |-> (Sign(d) * n) \div g, d |-> Abs(d) \div g, str |-> ""]

\* num1 + num2
Plus(x, y) ==
    IF x.kind = "nan" \/ y.kind = "nan" THEN JsNaN ELSE JsInt(x.n + y.n)

\* num1 - num2
Minus(x, y) ==
    IF x.kind = "nan" \/ y.kind = "nan" THEN JsNaN ELSE JsInt(x.n - y.n)

\* num1 * num2
Times(x, y) ==
    IF x.kind = "nan" \/ y.kind = "nan" THEN JsNaN ELSE JsInt(x.n * y.n)

\* num1 / num2: a division by zero gives an infinity, and 0 / 0 gives NaN
Divide(x, y) ==
    IF x.kind = "nan" \/ y.kind = "nan" THEN JsNaN
    ELSE IF y.n = 0 THEN (IF x.n = 0 THEN JsNaN ELSE JsInfinity(Sign(x.n)))
    ELSE Ratio(x.n, y.n)

\* num1 % num2: the sign is that of num1, and x % 0 is NaN
Remainder(x, y) ==
    IF x.kind = "nan" \/ y.kind = "nan" \/ y.n = 0 THEN JsNaN
    ELSE JsInt(Sign(x.n) * (Abs(x.n) % Abs(y.n)))

RECURSIVE Power(_, _)
Power(a, k) == IF k = 0 THEN 1 ELSE a * Power(a, k - 1)

\* Math.pow(num1, num2)
MathPow(x, y) ==
    IF y.kind = "nan" THEN JsNaN
    ELSE IF y.n = 0 THEN JsInt(1)
    ELSE IF x.kind = "nan" THEN JsNaN
    ELSE IF y.n > 0 THEN JsInt(Power(x.n, y.n))
    ELSE IF x.n = 0 THEN JsInfinity(1)
    ELSE Ratio(1, Power(x.n, 0 - y.n))

\* Math.sqrt(num1)
MathSqrt(x) ==
    IF x.kind = "nan" \/ x.n < 0 THEN JsNaN
    ELSE IF \E r \in 0..x.n : r * r = x.n
    THEN JsInt(CHOOSE r \in 0..x.n : r * r = x.n)
    ELSE Surd(x.n)

\* num2 === 0
IsZero(y) == y.kind = "number" /\ y.n = 0

\* a test that takes zero for negative as well (<= for <)
IsNotPositive(x) == x.kind = "number" /\ x.n <= 0

\* num1 < 0
IsNegative(x) == x.kind = "number" /\ x.n < 0

\* case "name": of the switch
Is(operation, name) == operation.given /\ operation.text = name

\* final1.js:1-26
CalculateFinal1(num1, num2, operation) ==
    IF Is(operation, "add") THEN Plus(num1, num2)
    ELSE IF Is(operation, "sub") THEN Minus(num1, num2)
    ELSE IF Is(operation, "div")
    THEN (IF IsZero(num2) THEN Text("Error: Division by zero!")
          ELSE Divide(num1, num2))
    ELSE IF Is(operation, "mul") THEN Times(num1, num2)
    ELSE IF Is(operation, "rem") THEN Remainder(num1, num2)
    ELSE IF Is(operation, "pow") THEN MathPow(num1, num2)
    ELSE IF Is(operation, "sqrt")
    THEN (IF IsNegative(num1)
          THEN Text("Error: Cannot compute the square root of a negative number!")
          ELSE MathSqrt(num1))
    ELSE Text("Invalid operator")

\* second.js:1-16
CalculateSecond(num1, num2, operation) ==
    IF Is(operation, "add") THEN Plus(num1, num2)
    ELSE IF Is(operation, "sub") THEN Minus(num1, num2)
    ELSE IF Is(operation, "div") THEN Divide(num1, num2)
    ELSE IF Is(operation, "mul") THEN Times(num1, num2)
    ELSE IF Is(operation, "rem") THEN Remainder(num1, num2)
    ELSE Text("Invalid operator")

\* a switch without the case "rem"
CalculateThirdNoRem(num1, num2, operation) ==
    IF Is(operation, "add") THEN Plus(num1, num2)
    ELSE IF Is(operation, "sub") THEN Minus(num1, num2)
    ELSE IF Is(operation, "div") THEN Divide(num1, num2)
    ELSE IF Is(operation, "mul") THEN Times(num1, num2)
    ELSE Text("Invalid operator")

\* third.js:1-16
CalculateThird(num1, num2, operation) ==
    IF Is(operation, "add") THEN Plus(num1, num2)
    ELSE IF Is(operation, "sub") THEN Minus(num1, num2)
    ELSE IF Is(operation, "div") THEN Divide(num1, num2)
    ELSE IF Is(operation, "mul") THEN Times(num1, num2)
    ELSE IF Is(operation, "rem") THEN Remainder(num1, num2)
    ELSE Text("Invalid operator")

\* the numbers given to Calculate
Numbers == {JsInt(n) : n \in (0 - MaxNum)..MaxNum} \cup {JsNaN}

\* the operations given to Calculate: the seven of final1.js, two that no
\* version knows, and none
Operations ==
    {Operation(t) : t \in {"add", "sub", "div", "mul", "rem", "pow", "sqrt", "mod", ""}}
    \cup {NoOperation}

\* Calculate of final1.js is called with the arguments
CallFinal1 ==
    /\ calcOut.final1 = NotCalled
    /\ calcOut' = [calcOut EXCEPT !.final1 =
                     CalculateFinal1(calcIn.num1, calcIn.num2, calcIn.operation)]
    /\ UNCHANGED <<calcIn, cliArgv, cliCalls, cliConsole, crudVars, formVars, fsVars>>

\* Calculate of second.js is called with the arguments
CallSecond ==
    /\ calcOut.second = NotCalled
    /\ calcOut' = [calcOut EXCEPT !.second =
                     CalculateSecond(calcIn.num1, calcIn.num2, calcIn.operation)]
    /\ UNCHANGED <<calcIn, cliArgv, cliCalls, cliConsole, crudVars, formVars, fsVars>>

\* Calculate of third.js is called with the arguments
CallThird ==
    /\ calcOut.third = NotCalled
    /\ calcOut' = [calcOut EXCEPT !.third =
                     CalculateThird(calcIn.num1, calcIn.num2, calcIn.operation)]
    /\ UNCHANGED <<calcIn, cliArgv, cliCalls, cliConsole, crudVars, formVars, fsVars>>

InitCalc ==
    \E x \in Numbers, y \in Numbers, op \in Operations :
        /\ CrudOff /\ FormOff /\ FsOff /\ CliOff
        /\ CalcStart(Call(x, y, op))

NextCalc == CallFinal1 \/ CallSecond \/ CallThird

SpecCalc == InitCalc /\ [][NextCalc]_vars

\* the three versions of Calculate have been called with the arguments
AllCalled ==
    /\ calcOut.final1 # NotCalled
    /\ calcOut.second # NotCalled
    /\ calcOut.third # NotCalled

\* the operation given is one of the names
OperationIn(names) == calcIn.operation.given /\ calcIn.operation.text \in names

\* the second number given is 0
SecondIsZero == calcIn.num2 = JsInt(0)

\* C26: for the same arguments Calculate of final1.js returns what
\* Calculate of third.js and of second.js return when the operation is add,
\* sub, mul or rem, and when it is div and num2 is not 0; the results
\* differ only for div with num2 = 0 and for pow and sqrt, and they do
\* differ then: third.js and second.js answer pow and sqrt with 'Invalid
\* operator'.  third.js and second.js always agree.
C26_SameResults ==
    AllCalled =>
        /\ calcOut.second = calcOut.third
        /\ OperationIn({"add", "sub", "mul", "rem"}) => calcOut.final1 = calcOut.third
        /\ (OperationIn({"div"}) /\ ~SecondIsZero) => calcOut.final1 = calcOut.third
        /\ calcOut.final1 # calcOut.third <=>
            \/ OperationIn({"div"}) /\ SecondIsZero
            \/ OperationIn({"pow", "sqrt"})
        /\ OperationIn({"pow", "sqrt"}) => calcOut.third = Text("Invalid operator")

C26_Witness ==
    /\ AllCalled
    /\ OperationIn({"div"}) /\ SecondIsZero
    /\ calcIn.num1 = JsInt(0 - MaxNum)
    /\ calcOut.final1 = Text("Error: Division by zero!")
    /\ calcOut.third = JsInfinity(0 - 1)
    /\ calcOut.second = JsInfinity(0 - 1)

\* the first number given is a number below 0
FirstIsNegative == calcIn.num1.kind = "number" /\ calcIn.num1.n < 0

\* the result is a number (NaN, the infinities and roots included)
IsNumberValue(v) == v.kind \in {"number", "nan", "infinity", "sqrt"}

\* C27: Calculate of final1.js returns a string exactly in three cases, and
\* a number in every other one: 'Error: Division by zero!' for div with
\* num2 = 0, whatever num1 is; 'Error: Cannot compute the square root of a
\* negative number!' for sqrt with num1 < 0; 'Invalid operator' for every
\* operation other than add, sub, div, mul, rem, pow and sqrt (none given
\* included).  rem with num2 = 0 returns a number, NaN, and no error.
C27_ErrorStrings ==
    calcOut.final1 # NotCalled =>
        LET result == calcOut.final1
            known == {"add", "sub", "div", "mul", "rem", "pow", "sqrt"}
        IN  /\ IF OperationIn({"div"}) /\ SecondIsZero
               THEN result = Text("Error: Division by zero!")
               ELSE IF OperationIn({"sqrt"}) /\ FirstIsNegative
               THEN result = Text("Error: Cannot compute the square root of a negative number!")
               ELSE IF ~OperationIn(known)
               THEN result = Text("Invalid operator")
               ELSE IsNumberValue(result)
            /\ (OperationIn({"rem"}) /\ SecondIsZero) => result = JsNaN

C27_Witness ==
    /\ calcOut.final1 = JsNaN
    /\ OperationIn({"rem"}) /\ SecondIsZero
    /\ calcIn.num1 = JsInt(MaxNum)

(***************************************************************************)
(* The command line of final1.js (28-39).                                  *)
(***************************************************************************)
IsSpace(c) == c = " "

\* String.prototype.trim, as Number applies it to its argument
RECURSIVE TrimLeft(_)
TrimLeft(t) == IF t # <<>> /\ IsSpace(Head(t)) THEN TrimLeft(Tail(t)) ELSE t

RECURSIVE TrimRight(_)
TrimRight(t) ==
    IF t # <<>> /\ IsSpace(t[Len(t)]) THEN TrimRight(SubSeq(t, 1, Len(t) - 1)) ELSE t

AllDigits(t) == t # <<>> /\ \A k \in 1..Len(t) : IsDigit(t[k])

\* Number(text) for a string: white space around it is dropped, the empty
\* string is 0, a run of digits with or without a sign is its value, and
\* any other text is NaN (no argument of the runs has a decimal point, an
\* exponent, a radix prefix or the word Infinity)
StringToNumber(t) ==
    LET u == TrimLeft(TrimRight(t))
    IN  IF u = <<>> THEN JsInt(0)
        ELSE IF AllDigits(u) THEN JsInt(DigitRun(u, 0))
        ELSE IF Head(u) = "-" /\ AllDigits(Tail(u)) THEN JsInt(0 - DigitRun(Tail(u), 0))
        ELSE IF Head(u) = "+" /\ AllDigits(Tail(u)) THEN JsInt(DigitRun(Tail(u), 0))
        ELSE JsNaN

\* Number(process.argv[k]): an argument that is not given is undefined,
\* and Number(undefined) is NaN
ToNumber(arg) == IF arg.given THEN StringToNumber(arg.text) ELSE JsNaN

\* isNaN(input)
IsNaN(v) == v.kind = "nan"

\* the decimal numeral of an integer between -9 and 9
Numeral(n) == IF n < 0 THEN <<"-", Digits[1 - n]>> ELSE <<Digits[n + 1]>>

\* the arguments given for the numbers: numerals, the empty string, texts
\* that are no numerals, and none
NumberArgs ==
    {Given(Numeral(n)) : n \in (0 - MaxNum)..MaxNum}
    \cup {Given(<<>>), Given(<<"x">>), Given(<<"2", "x">>), Missing}

\* the arguments given for the operation
OperationArgs ==
    {Operation(t) : t \in {"add", "div", "sqrt", "mod"}} \cup {NoOperation}

\* final1.js:28-39: one run of the script
RunFinal1 ==
    /\ cliConsole = <<>>
    /\ LET input1 == ToNumber(cliArgv[1])
           input2 == ToNumber(cliArgv[2])
           operation == cliArgv[3]
       IN  IF IsNaN(input1) \/ (IsNaN(input2) /\ ~Is(operation, "sqrt"))
           THEN /\ cliConsole' = <<Text("Error: Please provide valid numbers.")>>
                /\ UNCHANGED cliCalls
           ELSE /\ cliCalls' = <<Call(input1, input2, operation)>>
                /\ cliConsole' = <<CalculateFinal1(input1, input2, operation)>>
    /\ UNCHANGED <<cliArgv, calcIn, calcOut, crudVars, formVars, fsVars>>

InitCli ==
    \E a \in NumberArgs, b \in NumberArgs, op \in OperationArgs :
        /\ CrudOff /\ FormOff /\ FsOff /\ CalcOff
        /\ CliStart(<<a, b, op>>)

NextCli == RunFinal1

SpecCli == InitCli /\ [][NextCli]_vars

\* the argument is given and is a number: a run of digits, with or without
\* a minus sign in front
IsNumberText(arg) ==
    /\ arg.given
    /\ arg.text # <<>>
    /\ LET body == IF Head(arg.text) = "-" THEN Tail(arg.text) ELSE arg.text
       IN  body # <<>> /\ \A k \in 1..Len(body) : body[k] \in {Digits[d] : d \in 1..10}

\* C28: a run of final1.js prints 'Error: Please provide valid numbers.'
\* and does not call Calculate exactly when the first argument is not a
\* number, or the second argument is not a number and the operation is not
\* sqrt; in every other case it calls Calculate once, with the numbers of
\* the arguments, and prints what it returns.
C28_ValidNumbersOnly ==
    cliConsole # <<>> =>
        IF \/ ~IsNumberText(cliArgv[1])
           \/ ~IsNumberText(cliArgv[2]) /\ cliArgv[3] # Operation("sqrt")
        THEN /\ cliConsole = <<Text("Error: Please provide valid numbers.")>>
             /\ cliCalls = <<>>
        ELSE /\ Len(cliCalls) = 1
             /\ cliCalls[1].operation = cliArgv[3]
             /\ cliConsole = <<CalculateFinal1(cliCalls[1].num1, cliCalls[1].num2,
                                               cliCalls[1].operation)>>

====
